---- MODULE Spec2Model ----
(***************************************************************************)
(* Role-based access control backend (Express + Mongoose) and the auth     *)
(* state of its React frontend (AuthProvider, ProtectedRoute).             *)
(*                                                                         *)
(* State: the users collection, the posts collection, and for every        *)
(* request in flight the variables its handler chain still holds           *)
(* (req.headers.authorization, req.params.id, req.body, req.user, the      *)
(* route the router dispatches to) or the response it was given.           *)
(*                                                                         *)
(* Handlers are async functions.  Every `await` of a store operation is a  *)
(* point where other requests run, so every action below is one store      *)
(* operation together with the synchronous code that follows it up to the  *)
(* next await (or the response).  A request's inputs (header, route, id,   *)
(* body, the clock reading) are fixed when it arrives; whether a store     *)
(* operation fails is decided when it runs.                                *)
(***************************************************************************)
EXTENDS Integers, FiniteSets, Sequences, TLC

---------------------------------------------------------------------------
(* Bounds *)

MaxUsers == 2
MaxPosts == 1
MaxReqs == 2
MaxTime == 1
MaxCalls == 2

---------------------------------------------------------------------------
(* Values *)

UserIds == 1..MaxUsers
PostIds == 1..MaxPosts
ReqIds == 1..MaxReqs
Times == 0..MaxTime

\* an id string Mongoose cannot cast to an ObjectId (CastError)
BadId == 0
\* req.params.id / req.user before they are set
NoId == 0 - 1

PostParamIds == PostIds \cup {BadId}
UserParamIds == UserIds \cup {BadId}

validRoles == {"admin", "editor", "viewer"}
statusEnum == {"draft", "published"}

Absent == "absent"
NoUser == [id |-> NoId, role |-> Absent]

PostRoutes == {"getAllPosts", "getMyPosts", "getPostById",
               "createPost", "updatePost", "deletePost"}
UserRoutes == {"getAllUsers", "getUserById", "updateUserRole", "deleteUser"}
Routes == PostRoutes \cup UserRoutes

\* allowedRolesOf with the user routes opened to editors
allowedRolesOfEditorsToo(route) ==
    IF route \in UserRoutes THEN {"admin", "editor"}
    ELSE IF route \in {"createPost", "updatePost", "deletePost"} THEN {"admin", "editor"}
    ELSE {}

\* the role lists the routers hand to checkRole; {} where no checkRole is mounted
allowedRolesOf(route) ==
    IF route \in UserRoutes THEN {"admin"}
    ELSE IF route \in {"createPost", "updatePost", "deletePost"} THEN {"admin", "editor"}
    ELSE {}

\* hasRoleGate with checkRole left off the post routes
hasRoleGateUsersOnly(route) == route \in UserRoutes

\* hasRoleGate with checkRole left off the user router
hasRoleGatePostsOnly(route) == route \in {"createPost", "updatePost", "deletePost"}

\* the routes that run a checkRole before their controller
hasRoleGate(route) ==
    route \in UserRoutes \cup {"createPost", "updatePost", "deletePost"}

---------------------------------------------------------------------------
(* Tokens and the Authorization header *)

\* a JWT: the subject id, the expiry instant, and what its signature is worth
\* under JWT_SECRET ("good"), under another key ("bad"), or not a JWT at all
Tokens ==
    [sub : UserIds, exp : 1..MaxTime, sig : {"good", "bad"}]
      \cup {[sub |-> NoId, exp |-> 0, sig |-> "malformed"]}

NoHeader == [scheme |-> Absent, token |-> [sub |-> NoId, exp |-> 0, sig |-> Absent]]
BasicHeader == [scheme |-> "Basic", token |-> [sub |-> NoId, exp |-> 0, sig |-> Absent]]
Headers == {NoHeader, BasicHeader} \cup {[scheme |-> "Bearer", token |-> t] : t \in Tokens}

\* req.headers.authorization && req.headers.authorization.startsWith('Bearer')
hasBearer(h) == h.scheme = "Bearer"

\* jwtVerify with the expiry ignored
jwtVerifyNoExpiry(tok, t) ==
    IF tok.sig # "good" THEN [ok |-> FALSE, id |-> NoId]
    ELSE [ok |-> TRUE, id |-> tok.sub]

\* jwt.verify(token, JWT_SECRET) at clock reading t: throws on a malformed token,
\* a bad signature, or t >= exp; otherwise returns the payload
jwtVerify(tok, t) ==
    IF tok.sig # "good" THEN [ok |-> FALSE, id |-> NoId]
    ELSE IF t >= tok.exp THEN [ok |-> FALSE, id |-> NoId]
    ELSE [ok |-> TRUE, id |-> tok.sub]

---------------------------------------------------------------------------
(* Requests *)

NoBody == [title |-> Absent, content |-> Absent, status |-> Absent,
           author |-> NoId, role |-> Absent]

\* req.body of POST /api/posts; author is a field a client may add
CreateBodies ==
    {[NoBody EXCEPT !.title = t, !.content = c, !.status = s, !.author = a] :
        t \in {Absent, "a"}, c \in {Absent, "c"},
        s \in {Absent, "bogus"} \cup statusEnum, a \in {NoId} \cup UserIds}

\* req.body of PUT /api/posts/:id: any subset of the schema's status and
\* author fields (title and content are text no handler reads back)
UpdateBodies ==
    {[NoBody EXCEPT !.status = s, !.author = a] :
        s \in {Absent, "bogus"} \cup statusEnum, a \in {NoId} \cup UserIds}

\* req.body of PATCH /api/users/:id/role
RoleBodies ==
    {[NoBody EXCEPT !.role = x] : x \in {Absent, "superuser"} \cup validRoles}

Line(route, id, body) == [route |-> route, id |-> id, body |-> body]

\* method, path and body of every request the two routers serve
RequestLines ==
    {Line(rt, NoId, NoBody) : rt \in {"getAllPosts", "getMyPosts", "getAllUsers"}}
      \cup {Line("getPostById", i, NoBody) : i \in PostParamIds}
      \cup {Line("createPost", NoId, b) : b \in CreateBodies}
      \cup {Line("updatePost", i, b) : i \in PostParamIds, b \in UpdateBodies}
      \cup {Line("deletePost", i, NoBody) : i \in PostParamIds}
      \cup {Line("getUserById", i, NoBody) : i \in UserParamIds}
      \cup {Line("updateUserRole", i, b) : i \in UserParamIds, b \in RoleBodies}
      \cup {Line("deleteUser", i, NoBody) : i \in UserParamIds}

---------------------------------------------------------------------------
(* State *)

VARIABLES users, posts, nextPostId, reqs

\* the browser: localStorage, the AuthProvider's state (user, loading), the
\* auth calls awaiting their response, and the last protected page rendered
VARIABLES localStorage, authState, pending, screen

frontend == <<localStorage, authState, pending, screen>>

vars == <<users, posts, nextPostId, reqs, localStorage, authState, pending, screen>>

\* localStorage.getItem of a key that is not set; useState(null)
NoItem == [json |-> Absent]
NoUserData == [role |-> Absent]
NoScreen == [path |-> Absent, loading |-> FALSE, user |-> NoUserData, view |-> Absent]

NoMsg == [text |-> Absent, required |-> {}, role |-> Absent]
Msg(text) == [text |-> text, required |-> {}, role |-> Absent]

IdleReq ==
    [pc |-> "idle", auth |-> NoHeader, now |-> 0, route |-> Absent, id |-> NoId,
     body |-> NoBody, user |-> NoUser, status |-> 0, msg |-> NoMsg]

\* res.status(status).json({success, message}): the request is over and only
\* its response remains
Respond(status, msg) ==
    [IdleReq EXCEPT !.pc = "done", !.status = status, !.msg = msg]

\* a 401 of protect, kept with the header and the clock reading it was given on
Reject(q, text) ==
    [Respond(401, Msg(text)) EXCEPT !.auth = q.auth, !.now = q.now]

PostRecs == [author : UserIds, status : statusEnum]

TypeOK ==
    /\ DOMAIN users \subseteq UserIds
    /\ \A u \in DOMAIN users : users[u] \in validRoles
    /\ DOMAIN posts \subseteq PostIds
    /\ \A p \in DOMAIN posts : posts[p] \in PostRecs
    /\ nextPostId \in 1..(MaxPosts + 1)
    /\ \A r \in ReqIds : reqs[r].pc \in {"idle", "protect", "ctrl", "write", "done"}
    /\ localStorage.token \in {Absent, "jwt"}
    /\ localStorage.user \in {NoItem} \cup [json : validRoles]
    /\ authState \in [user : {NoUserData} \cup [role : validRoles], loading : BOOLEAN]
    /\ pending \in [login : 0..MaxCalls, register : 0..MaxCalls,
                    returned : {Absent, "success", "failure"}]

Init ==
    /\ users \in [UserIds -> validRoles]
    /\ posts = <<>>
    /\ nextPostId = 1
    /\ reqs = [r \in ReqIds |-> IdleReq]
    /\ localStorage = [token |-> Absent, user |-> NoItem]
    /\ authState = [user |-> NoUserData, loading |-> TRUE]
    /\ pending = [login |-> 0, register |-> 0, returned |-> Absent]
    /\ screen = NoScreen

---------------------------------------------------------------------------
(* Arrival *)

Arrive(r, h, t, line) ==
    /\ reqs[r].pc \in {"idle", "done"}
    /\ UNCHANGED frontend
    /\ reqs' = [reqs EXCEPT ![r] =
                  [IdleReq EXCEPT !.pc = "protect", !.auth = h, !.now = t,
                                  !.route = line.route, !.id = line.id,
                                  !.body = line.body]]
    /\ UNCHANGED <<users, posts, nextPostId>>

\* a request reaches the server at clock reading t (the clock is read by
\* jwt.verify alone, and only once the signature has been found good)
Receive(r) ==
    \E h \in Headers, t \in Times, line \in RequestLines :
        /\ h.token.sig # "good" => t = 0
        /\ Arrive(r, h, t, line)

---------------------------------------------------------------------------
(* Middleware *)

\* checkRole that only asks for a user
checkRoleAnyUser(allowedRoles, user) ==
    IF user = NoUser
    THEN [next |-> FALSE, status |-> 401, msg |-> Msg("User not authenticated")]
    ELSE [next |-> TRUE, status |-> 0, msg |-> NoMsg]

\* checkRole answering a wrong role with 401
checkRoleUnauthorized(allowedRoles, user) ==
    IF user = NoUser
    THEN [next |-> FALSE, status |-> 401, msg |-> Msg("User not authenticated")]
    ELSE IF user.role \notin allowedRoles
    THEN [next |-> FALSE, status |-> 401,
          msg |-> [text |-> "Access denied", required |-> allowedRoles, role |-> user.role]]
    ELSE [next |-> TRUE, status |-> 0, msg |-> NoMsg]

\* checkRole(allowedRoles)(req, res, next)
checkRole(allowedRoles, user) ==
    IF user = NoUser
    THEN [next |-> FALSE, status |-> 401, msg |-> Msg("User not authenticated")]
    ELSE IF user.role \notin allowedRoles
    THEN [next |-> FALSE, status |-> 403,
          msg |-> [text |-> "Access denied", required |-> allowedRoles, role |-> user.role]]
    ELSE [next |-> TRUE, status |-> 0, msg |-> NoMsg]

\* Dispatch with checkRole mounted ahead of protect: it runs before req.user is set
DispatchGateFirst(r, user) ==
    LET gate == checkRole(allowedRolesOf(reqs[r].route), NoUser) IN
    IF hasRoleGate(reqs[r].route) /\ ~gate.next
    THEN reqs' = [reqs EXCEPT ![r] = Respond(gate.status, gate.msg)]
    ELSE reqs' = [reqs EXCEPT ![r].pc = "ctrl", ![r].user = user,
                              ![r].auth = NoHeader, ![r].now = 0]

\* Dispatch that runs the controller without the route's checkRole
DispatchNoGate(r, user) ==
    reqs' = [reqs EXCEPT ![r].pc = "ctrl", ![r].user = user,
                         ![r].auth = NoHeader, ![r].now = 0]

\* what follows next() in protect: the router runs the route's checkRole, if
\* any, and then its controller
Dispatch(r, user) ==
    LET gate == checkRole(allowedRolesOf(reqs[r].route), user) IN
    IF hasRoleGate(reqs[r].route) /\ ~gate.next
    THEN reqs' = [reqs EXCEPT ![r] = Respond(gate.status, gate.msg)]
    ELSE reqs' = [reqs EXCEPT ![r].pc = "ctrl", ![r].user = user,
                              ![r].auth = NoHeader, ![r].now = 0]

\* findUserById that takes the token's word for a user the store does not have
findUserByIdTrusting(id) ==
    [id |-> id, role |-> IF id \in DOMAIN users THEN users[id] ELSE "viewer"]

\* findUserById whose filter names no schema path: the first user matches
findUserByIdAnyUser(id) ==
    IF DOMAIN users = {} THEN NoUser
    ELSE LET u == CHOOSE v \in DOMAIN users : \A w \in DOMAIN users : v <= w
         IN [id |-> u, role |-> users[u]]

\* User.findById(decoded.id).select('-password')
findUserById(id) ==
    IF id \in DOMAIN users THEN [id |-> id, role |-> users[id]] ELSE NoUser

\* protect(req, res, next)
protect(r) ==
    /\ reqs[r].pc = "protect"
    /\ UNCHANGED frontend
    /\ UNCHANGED <<users, posts, nextPostId>>
    /\ LET h == reqs[r].auth IN
       IF ~hasBearer(h)
       THEN reqs' = [reqs EXCEPT ![r] = Reject(reqs[r], "Not authorized, no token provided")]
       ELSE \E storeFails \in BOOLEAN :
              LET decoded == jwtVerify(h.token, reqs[r].now)
                  user == findUserById(decoded.id)
              IN
              IF ~decoded.ok \/ storeFails
              THEN reqs' = [reqs EXCEPT ![r] = Reject(reqs[r], "Not authorized, token failed")]
              ELSE IF user = NoUser
              THEN reqs' = [reqs EXCEPT ![r] = Reject(reqs[r], "User not found")]
              ELSE Dispatch(r, user)

---------------------------------------------------------------------------
(* Post controllers *)

\* Finish that sends nothing: the request is left waiting
FinishForgets(r, status, text) == reqs' = [reqs EXCEPT ![r].pc = "hung"]

\* the controller answers
Finish(r, status, text) == reqs' = [reqs EXCEPT ![r] = Respond(status, Msg(text))]

AtCtrl(r, route) == reqs[r].pc = "ctrl" /\ reqs[r].route = route
AtWrite(r, route) == reqs[r].pc = "write" /\ reqs[r].route = route

\* notOwner comparing the ObjectId itself with the id string: never equal
notOwnerNoToString(user, post) == user.role # "admin"

\* req.user.role !== 'admin' && post.author.toString() !== req.user.id
notOwner(user, post) == user.role # "admin" /\ post.author # user.id

\* getAllPosts: Post.find()
getAllPosts(r) ==
    /\ AtCtrl(r, "getAllPosts")
    /\ UNCHANGED frontend
    /\ UNCHANGED <<users, posts, nextPostId>>
    /\ \E storeFails \in BOOLEAN :
         IF storeFails THEN Finish(r, 500, "Error fetching posts")
         ELSE Finish(r, 200, "ok")

\* getMyPosts: Post.find({author: req.user.id})
getMyPosts(r) ==
    /\ AtCtrl(r, "getMyPosts")
    /\ UNCHANGED frontend
    /\ UNCHANGED <<users, posts, nextPostId>>
    /\ \E storeFails \in BOOLEAN :
         IF storeFails THEN Finish(r, 500, "Error fetching your posts")
         ELSE Finish(r, 200, "ok")

\* getPostById: Post.findById(req.params.id)
getPostById(r) ==
    /\ AtCtrl(r, "getPostById")
    /\ UNCHANGED frontend
    /\ UNCHANGED <<users, posts, nextPostId>>
    /\ \E storeFails \in BOOLEAN :
         IF reqs[r].id = BadId \/ storeFails THEN Finish(r, 500, "Error fetching post")
         ELSE IF reqs[r].id \notin DOMAIN posts THEN Finish(r, 404, "Post not found")
         ELSE Finish(r, 200, "ok")

\* newPost built from the whole body, with the principal as the default author
newPostFromBody(user, body) ==
    [author |-> IF body.author = NoId THEN user.id ELSE body.author,
     status |-> IF body.status = Absent THEN "draft" ELSE body.status]

\* the document createPost hands to Post.create
newPost(user, body) ==
    [author |-> user.id,
     status |-> IF body.status = Absent THEN "draft" ELSE body.status]

\* createPost: validation, Post.create, post.populate
createPost(r) ==
    /\ AtCtrl(r, "createPost")
    /\ UNCHANGED frontend
    /\ UNCHANGED users
    /\ \E storeFails \in {"no", "create", "populate"} :
         LET body == reqs[r].body
             post == newPost(reqs[r].user, body)
         IN
         IF body.title = Absent \/ body.content = Absent
         THEN /\ Finish(r, 400, "Please provide title and content")
              /\ UNCHANGED <<posts, nextPostId>>
         ELSE IF post.status \notin statusEnum \/ storeFails = "create"
         THEN /\ Finish(r, 500, "Error creating post")
              /\ UNCHANGED <<posts, nextPostId>>
         ELSE /\ nextPostId <= MaxPosts
              /\ posts' = (nextPostId :> post) @@ posts
              /\ nextPostId' = nextPostId + 1
              /\ IF storeFails = "populate" THEN Finish(r, 500, "Error creating post")
                 ELSE Finish(r, 201, "Post created successfully")

\* updatePost up to the ownership check: Post.findById(req.params.id)
updatePostFind(r) ==
    /\ AtCtrl(r, "updatePost")
    /\ UNCHANGED frontend
    /\ UNCHANGED <<users, posts, nextPostId>>
    /\ \E storeFails \in BOOLEAN :
         IF reqs[r].id = BadId \/ storeFails THEN Finish(r, 500, "Error updating post")
         ELSE IF reqs[r].id \notin DOMAIN posts THEN Finish(r, 404, "Post not found")
         ELSE IF notOwner(reqs[r].user, posts[reqs[r].id])
         THEN Finish(r, 403, "You can only edit your own posts")
         ELSE reqs' = [reqs EXCEPT ![r].pc = "write"]

\* the $set Mongoose builds from req.body
applyUpdate(post, body) ==
    [author |-> IF body.author = NoId THEN post.author ELSE body.author,
     status |-> IF body.status = Absent THEN post.status ELSE body.status]

\* updatePostWrite without runValidators: the update is not validated
updatePostWriteNoValidators(r) ==
    /\ AtWrite(r, "updatePost")
    /\ UNCHANGED frontend
    /\ UNCHANGED <<users, nextPostId>>
    /\ \E storeFails \in BOOLEAN :
         LET id == reqs[r].id
             body == reqs[r].body
         IN
         IF storeFails
         THEN /\ Finish(r, 500, "Error updating post")
              /\ UNCHANGED posts
         ELSE /\ posts' = IF id \in DOMAIN posts
                          THEN [posts EXCEPT ![id] = applyUpdate(posts[id], body)]
                          ELSE posts
              /\ Finish(r, 200, "Post updated successfully")

\* updatePost from the write on: Post.findByIdAndUpdate(id, req.body, {runValidators})
updatePostWrite(r) ==
    /\ AtWrite(r, "updatePost")
    /\ UNCHANGED frontend
    /\ UNCHANGED <<users, nextPostId>>
    /\ \E storeFails \in BOOLEAN :
         LET id == reqs[r].id
             body == reqs[r].body
         IN
         IF body.status \notin statusEnum \cup {Absent} \/ storeFails
         THEN /\ Finish(r, 500, "Error updating post")
              /\ UNCHANGED posts
         ELSE /\ posts' = IF id \in DOMAIN posts
                          THEN [posts EXCEPT ![id] = applyUpdate(posts[id], body)]
                          ELSE posts
              /\ Finish(r, 200, "Post updated successfully")

\* deletePostFind with the ownership check ahead of the existence check
deletePostFindOwnerFirst(r) ==
    /\ AtCtrl(r, "deletePost")
    /\ UNCHANGED frontend
    /\ UNCHANGED <<users, posts, nextPostId>>
    /\ \E storeFails \in BOOLEAN :
         IF reqs[r].id = BadId \/ storeFails THEN Finish(r, 500, "Error deleting post")
         ELSE IF reqs[r].user.role # "admin"
                   /\ (reqs[r].id \in DOMAIN posts => posts[reqs[r].id].author # reqs[r].user.id)
         THEN Finish(r, 403, "You can only delete your own posts")
         ELSE IF reqs[r].id \notin DOMAIN posts THEN Finish(r, 404, "Post not found")
         ELSE reqs' = [reqs EXCEPT ![r].pc = "write"]

\* deletePost up to the ownership check: Post.findById(req.params.id)
deletePostFind(r) ==
    /\ AtCtrl(r, "deletePost")
    /\ UNCHANGED frontend
    /\ UNCHANGED <<users, posts, nextPostId>>
    /\ \E storeFails \in BOOLEAN :
         IF reqs[r].id = BadId \/ storeFails THEN Finish(r, 500, "Error deleting post")
         ELSE IF reqs[r].id \notin DOMAIN posts THEN Finish(r, 404, "Post not found")
         ELSE IF notOwner(reqs[r].user, posts[reqs[r].id])
         THEN Finish(r, 403, "You can only delete your own posts")
         ELSE reqs' = [reqs EXCEPT ![r].pc = "write"]

\* deletePost from the write on: Post.findByIdAndDelete(req.params.id)
deletePostWrite(r) ==
    /\ AtWrite(r, "deletePost")
    /\ UNCHANGED frontend
    /\ UNCHANGED <<users, nextPostId>>
    /\ \E storeFails \in BOOLEAN :
         IF storeFails
         THEN /\ Finish(r, 500, "Error deleting post")
              /\ UNCHANGED posts
         ELSE /\ posts' = [p \in DOMAIN posts \ {reqs[r].id} |-> posts[p]]
              /\ Finish(r, 200, "Post deleted successfully")

---------------------------------------------------------------------------
(* User controllers *)

\* getAllUsers: User.find()
getAllUsers(r) ==
    /\ AtCtrl(r, "getAllUsers")
    /\ UNCHANGED frontend
    /\ UNCHANGED <<users, posts, nextPostId>>
    /\ \E storeFails \in BOOLEAN :
         IF storeFails THEN Finish(r, 500, "Error fetching users")
         ELSE Finish(r, 200, "ok")

\* getUserById: User.findById(req.params.id)
getUserById(r) ==
    /\ AtCtrl(r, "getUserById")
    /\ UNCHANGED frontend
    /\ UNCHANGED <<users, posts, nextPostId>>
    /\ \E storeFails \in BOOLEAN :
         IF reqs[r].id = BadId \/ storeFails THEN Finish(r, 500, "Error fetching user")
         ELSE IF reqs[r].id \notin DOMAIN users THEN Finish(r, 404, "User not found")
         ELSE Finish(r, 200, "ok")

\* isSelf comparing the ObjectId itself with the id string: never equal
isSelfNoToString(id, user) == FALSE

\* user._id.toString() === req.user.id
isSelf(id, user) == id = user.id

\* updateUserRole up to the self check: validation, User.findById(req.params.id)
updateUserRoleFind(r) ==
    /\ AtCtrl(r, "updateUserRole")
    /\ UNCHANGED frontend
    /\ UNCHANGED <<users, posts, nextPostId>>
    /\ \E storeFails \in BOOLEAN :
         LET role == reqs[r].body.role IN
         IF role = Absent \/ role \notin validRoles THEN Finish(r, 400, "Invalid role")
         ELSE IF reqs[r].id = BadId \/ storeFails
         THEN Finish(r, 500, "Error updating user role")
         ELSE IF reqs[r].id \notin DOMAIN users THEN Finish(r, 404, "User not found")
         ELSE IF isSelf(reqs[r].id, reqs[r].user)
         THEN Finish(r, 400, "You cannot change your own role")
         ELSE reqs' = [reqs EXCEPT ![r].pc = "write"]

\* saveRole without the save
saveRoleDropped(id, role) == users

\* saveRole as an update whose filter matches every user
saveRoleEveryUser(id, role) == [u \in DOMAIN users |-> role]

\* user.role = role; user.save()
saveRole(id, role) == [users EXCEPT ![id] = role]

\* updateUserRole from the write on: user.role = role; user.save()
\* (save() of a document that is gone throws DocumentNotFoundError)
updateUserRoleSave(r) ==
    /\ AtWrite(r, "updateUserRole")
    /\ UNCHANGED frontend
    /\ UNCHANGED <<posts, nextPostId>>
    /\ \E storeFails \in BOOLEAN :
         IF storeFails \/ reqs[r].id \notin DOMAIN users
         THEN /\ Finish(r, 500, "Error updating user role")
              /\ UNCHANGED users
         ELSE /\ users' = saveRole(reqs[r].id, reqs[r].body.role)
              /\ Finish(r, 200, "User role updated")

\* deleteUser up to the self check: User.findById(req.params.id)
deleteUserFind(r) ==
    /\ AtCtrl(r, "deleteUser")
    /\ UNCHANGED frontend
    /\ UNCHANGED <<users, posts, nextPostId>>
    /\ \E storeFails \in BOOLEAN :
         IF reqs[r].id = BadId \/ storeFails THEN Finish(r, 500, "Error deleting user")
         ELSE IF reqs[r].id \notin DOMAIN users THEN Finish(r, 404, "User not found")
         ELSE IF isSelf(reqs[r].id, reqs[r].user)
         THEN Finish(r, 400, "You cannot delete your own account")
         ELSE reqs' = [reqs EXCEPT ![r].pc = "write"]

\* deleteUserDelete that also removes the posts the user wrote
deleteUserDeleteCascade(r) ==
    /\ AtWrite(r, "deleteUser")
    /\ UNCHANGED frontend
    /\ UNCHANGED nextPostId
    /\ \E storeFails \in BOOLEAN :
         IF storeFails
         THEN /\ Finish(r, 500, "Error deleting user")
              /\ UNCHANGED <<users, posts>>
         ELSE /\ users' = [u \in DOMAIN users \ {reqs[r].id} |-> users[u]]
              /\ posts' = [p \in {x \in DOMAIN posts : posts[x].author # reqs[r].id} |-> posts[p]]
              /\ Finish(r, 200, "User deleted successfully")

\* deleteUser from the write on: User.findByIdAndDelete(req.params.id)
deleteUserDelete(r) ==
    /\ AtWrite(r, "deleteUser")
    /\ UNCHANGED frontend
    /\ UNCHANGED <<posts, nextPostId>>
    /\ \E storeFails \in BOOLEAN :
         IF storeFails
         THEN /\ Finish(r, 500, "Error deleting user")
              /\ UNCHANGED users
         ELSE /\ users' = [u \in DOMAIN users \ {reqs[r].id} |-> users[u]]
              /\ Finish(r, 200, "User deleted successfully")

---------------------------------------------------------------------------
(* Specifications *)

\* one step of the handler chain of request r, past its arrival
Handle(r) ==
    \/ protect(r)
    \/ getAllPosts(r)
    \/ getMyPosts(r)
    \/ getPostById(r)
    \/ createPost(r)
    \/ updatePostFind(r)
    \/ updatePostWrite(r)
    \/ deletePostFind(r)
    \/ deletePostWrite(r)
    \/ getAllUsers(r)
    \/ getUserById(r)
    \/ updateUserRoleFind(r)
    \/ updateUserRoleSave(r)
    \/ deleteUserFind(r)
    \/ deleteUserDelete(r)

\* requests of every shape, handled one after the other
Next == Receive(1) \/ Handle(1)

Spec == Init /\ [][Next]_vars

\* every store operation settles (resolves or throws), so a request that can
\* take its next step takes it
LiveSpec == Spec /\ WF_vars(Handle(1))

\* the writing requests a logged-in client sends: a live token, an id that
\* casts, a body that passes validation (and role updates whose role does not)
RaceHeaders ==
    {[scheme |-> "Bearer", token |-> [sub |-> u, exp |-> 1, sig |-> "good"]] : u \in UserIds}

RaceLines ==
    {Line("createPost", NoId, [NoBody EXCEPT !.title = "a", !.content = "c"])}
      \cup {Line("updatePost", i, [NoBody EXCEPT !.status = "published"]) : i \in PostIds}
      \cup {Line("updatePost", i, [NoBody EXCEPT !.author = a]) : i \in PostIds, a \in UserIds}
      \cup {Line("deletePost", i, NoBody) : i \in PostIds}
      \cup {Line("updateUserRole", i, b) : i \in UserIds, b \in RoleBodies}
      \cup {Line("deleteUser", i, NoBody) : i \in UserIds}

ReceiveWrite(r) ==
    \E h \in RaceHeaders, line \in RaceLines : Arrive(r, h, 0, line)

HandleWrite(r) ==
    \/ protect(r)
    \/ createPost(r)
    \/ updatePostFind(r)
    \/ updatePostWrite(r)
    \/ deletePostFind(r)
    \/ deletePostWrite(r)
    \/ updateUserRoleFind(r)
    \/ updateUserRoleSave(r)
    \/ deleteUserFind(r)
    \/ deleteUserDelete(r)

\* writing requests handled concurrently, their store operations interleaved
RaceNext == \E r \in ReqIds : ReceiveWrite(r) \/ HandleWrite(r)

RaceSpec == Init /\ [][RaceNext]_vars

---------------------------------------------------------------------------
(* Frontend: AuthProvider and ProtectedRoute *)

\* the protected pages of App's <Routes>
Paths == {"/dashboard", "/viewer", "/editor", "/admin"}

\* the allowedRoles prop App gives the ProtectedRoute of a path (default [])
allowedRolesAt(path) ==
    IF path = "/editor" THEN {"admin", "editor"}
    ELSE IF path = "/admin" THEN {"admin"}
    ELSE {}

\* the user objects a successful auth response carries
UserData == [role : validRoles]

\* JSON.stringify(userData) and JSON.parse(savedUser)
stringify(userData) == [json |-> userData.role]
parse(item) == [role |-> item.json]

\* !!user
isAuthenticated == authState.user # NoUserData

ProtectedRouteNoRoleCheck(loading, user, allowedRoles) ==
    IF loading THEN "loading"
    ELSE IF user = NoUserData THEN "login"
    ELSE "children"

\* what ProtectedRoute returns: the spinner, <Navigate to="/login">, the
\* Access Denied card, or its children
ProtectedRoute(loading, user, allowedRoles) ==
    IF loading THEN "loading"
    ELSE IF user = NoUserData THEN "login"
    ELSE IF allowedRoles # {} /\ user.role \notin allowedRoles THEN "denied"
    ELSE "children"

\* the effect run once after the provider mounts
initialize ==
    /\ authState.loading
    /\ authState' =
         [user |-> IF localStorage.token # Absent /\ localStorage.user # NoItem
                   THEN parse(localStorage.user) ELSE authState.user,
          loading |-> FALSE]
    /\ UNCHANGED <<localStorage, pending, screen>>
    /\ UNCHANGED <<users, posts, nextPostId, reqs>>

\* login(...) or register(...) up to its await apiClient.post(...); App shows
\* its own spinner instead of the pages while loading
send(kind) ==
    /\ ~authState.loading
    /\ pending.login + pending.register < MaxCalls
    /\ pending' = [pending EXCEPT ![kind] = @ + 1]
    /\ UNCHANGED <<localStorage, authState, screen>>
    /\ UNCHANGED <<users, posts, nextPostId, reqs>>

settleClearsSession(kind, ok, userData) ==
    /\ pending[kind] > 0
    /\ pending' = [pending EXCEPT ![kind] = @ - 1,
                                  !.returned = IF ok THEN "success" ELSE "failure"]
    /\ IF ok
       THEN /\ localStorage' = [token |-> "jwt", user |-> stringify(userData)]
            /\ authState' = [authState EXCEPT !.user = userData]
       ELSE /\ localStorage' = [token |-> Absent, user |-> NoItem]
            /\ authState' = [authState EXCEPT !.user = NoUserData]
    /\ UNCHANGED screen
    /\ UNCHANGED <<users, posts, nextPostId, reqs>>

\* the rest of login or register once its post settles: on a response, both
\* items are stored and the user is set; on a rejection the catch block
\* only builds the {success: false} result
settle(kind, ok, userData) ==
    /\ pending[kind] > 0
    /\ pending' = [pending EXCEPT ![kind] = @ - 1,
                                  !.returned = IF ok THEN "success" ELSE "failure"]
    /\ IF ok
       THEN /\ localStorage' = [token |-> "jwt", user |-> stringify(userData)]
            /\ authState' = [authState EXCEPT !.user = userData]
       ELSE UNCHANGED <<localStorage, authState>>
    /\ UNCHANGED screen
    /\ UNCHANGED <<users, posts, nextPostId, reqs>>

login == send("login") \/ \E ok \in BOOLEAN, u \in UserData : settle("login", ok, u)

register == send("register") \/ \E ok \in BOOLEAN, u \in UserData : settle("register", ok, u)

logout ==
    /\ localStorage' = [token |-> Absent, user |-> NoItem]
    /\ authState' = [authState EXCEPT !.user = NoUserData]
    /\ UNCHANGED <<pending, screen>>
    /\ UNCHANGED <<users, posts, nextPostId, reqs>>

\* the ProtectedRoute of a path renders with the context's current values
render(path) ==
    /\ ~authState.loading
    /\ screen' = [path |-> path, loading |-> authState.loading, user |-> authState.user,
                  view |-> ProtectedRoute(authState.loading, authState.user,
                                          allowedRolesAt(path))]
    /\ UNCHANGED <<localStorage, authState, pending>>
    /\ UNCHANGED <<users, posts, nextPostId, reqs>>

FrontNext ==
    \/ initialize
    \/ login
    \/ register
    \/ logout
    \/ \E path \in Paths : render(path)

FrontSpec == Init /\ [][FrontNext]_vars

---------------------------------------------------------------------------
(* Properties *)

\* request r takes a step of its handler chain from stage pc
Steps(r, pc) == reqs[r].pc = pc /\ reqs'[r] # reqs[r]

StoresUnchanged == users' = users /\ posts' = posts /\ nextPostId' = nextPostId

\* a header that carries no bearer token, or one that is malformed, signed
\* with another key, or past its expiry at the clock reading of the request
BadCredentials(q) ==
    \/ q.auth.scheme # "Bearer"
    \/ q.auth.token.sig \in {"malformed", "bad"}
    \/ q.now >= q.auth.token.exp

\* a well-signed, unexpired bearer token
GoodCredentials(q) ==
    /\ q.auth.scheme = "Bearer"
    /\ q.auth.token.sig = "good"
    /\ q.now < q.auth.token.exp

\* the 401 protect gives when jwt.verify or the lookup throws
TokenFailed(q) ==
    q.pc = "done" /\ q.status = 401 /\ q.msg.text = "Not authorized, token failed"

\* C1: a request whose bearer token is absent, malformed, badly signed or
\* expired is answered 401 by protect itself, next is not called, and neither
\* store changes.
C1_BadTokenUnauthenticated ==
    [][\A r \in ReqIds :
          Steps(r, "protect") /\ BadCredentials(reqs[r]) =>
            /\ reqs'[r].pc = "done"
            /\ reqs'[r].status = 401
            /\ reqs'[r].msg.text \in {"Not authorized, no token provided",
                                      "Not authorized, token failed"}
            /\ StoresUnchanged]_vars

\* a well-signed token presented at or after its expiry has been turned away
C1_Witness ==
    \E r \in ReqIds :
        /\ reqs[r].pc = "done" /\ reqs[r].status = 401
        /\ reqs[r].auth.token.sig = "good"
        /\ reqs[r].now >= reqs[r].auth.token.exp

MutatingPost == {"updatePost", "deletePost"}

\* C2: on update and delete of an existing post, an editor who is not the
\* author is refused (403, the post untouched); the author and any admin
\* pass the ownership check and the write answers 200 (500 only when the
\* store operation itself throws, and then nothing is written).
C2_OwnershipCheck ==
    [][\A r \in ReqIds :
          /\ ( /\ Steps(r, "ctrl")
               /\ reqs[r].route \in MutatingPost
               /\ reqs[r].id \in DOMAIN posts ) =>
                 LET u == reqs[r].user
                     p == posts[reqs[r].id]
                 IN
                 IF u.role = "editor" /\ p.author # u.id
                 THEN /\ reqs'[r].pc = "done"
                      /\ reqs'[r].status \in {403, 500}
                      /\ posts' = posts
                 ELSE \/ reqs'[r].pc = "write"
                      \/ reqs'[r].pc = "done" /\ reqs'[r].status = 500
          /\ ( /\ Steps(r, "write")
               /\ reqs[r].route \in MutatingPost ) =>
                 /\ reqs'[r].pc = "done"
                 /\ reqs'[r].status \in {200, 500}
                 /\ reqs'[r].status = 500 => posts' = posts
                 /\ reqs'[r].status = 200 /\ reqs[r].route = "deletePost"
                      => reqs[r].id \notin DOMAIN posts']_vars

\* an editor has been refused the deletion of somebody else's post
C2_Witness ==
    \E r \in ReqIds :
        /\ reqs[r].pc = "done" /\ reqs[r].status = 403
        /\ reqs[r].msg.text = "You can only delete your own posts"
        /\ posts # <<>>

\* C3: with a user attached, the gate checkRole(allowedRoles) calls next
\* exactly when the user's role is in allowedRoles; otherwise it answers 403
\* and the controller does not run.
C3_RoleGate ==
    [][\A r \in ReqIds :
          ( /\ Steps(r, "protect")
            /\ GoodCredentials(reqs[r])
            /\ reqs[r].auth.token.sub \in DOMAIN users
            /\ hasRoleGate(reqs[r].route) ) =>
              LET sub == reqs[r].auth.token.sub
                  allowed == allowedRolesOf(reqs[r].route)
              IN
              \/ TokenFailed(reqs'[r])
              \/ /\ users[sub] \in allowed
                 /\ reqs'[r].pc = "ctrl"
                 /\ reqs'[r].user = [id |-> sub, role |-> users[sub]]
              \/ /\ users[sub] \notin allowed
                 /\ reqs'[r].pc = "done"
                 /\ reqs'[r].status = 403
                 /\ reqs'[r].msg = [text |-> "Access denied", required |-> allowed,
                                    role |-> users[sub]]]_vars

\* the gate has turned a user away for lack of the role
C3_Witness ==
    \E r \in ReqIds :
        /\ reqs[r].pc = "done" /\ reqs[r].status = 403
        /\ reqs[r].msg.text = "Access denied"
        /\ reqs[r].msg.role \notin reqs[r].msg.required

UserMutating == {"updateUserRole", "deleteUser"}

SelfTexts == {"You cannot change your own role", "You cannot delete your own account"}

\* C4: an admin's role update (with any valid role) or delete aimed at the
\* admin's own id is refused as an invalid operation and the users are left
\* as they were (an invalid role is refused by validation first); aimed at
\* another existing user it passes, and the write answers 200 with the role
\* set or the user removed (500 only when the store operation throws).
C4_SelfProtection ==
    [][\A r \in ReqIds :
          /\ ( /\ Steps(r, "ctrl")
               /\ reqs[r].route \in UserMutating
               /\ reqs[r].id \in DOMAIN users ) =>
                 LET roleOk == reqs[r].route = "deleteUser"
                                 \/ reqs[r].body.role \in validRoles
                 IN
                 IF reqs[r].id = reqs[r].user.id
                 THEN /\ reqs'[r].pc = "done"
                      /\ users' = users
                      /\ \/ reqs'[r].status = 400
                            /\ roleOk => reqs'[r].msg.text \in SelfTexts
                         \/ roleOk /\ reqs'[r].status = 500
                 ELSE roleOk =>
                        \/ reqs'[r].pc = "write"
                        \/ reqs'[r].pc = "done" /\ reqs'[r].status = 500
          /\ ( /\ Steps(r, "write")
               /\ reqs[r].route \in UserMutating ) =>
                 /\ reqs[r].id # reqs[r].user.id
                 /\ reqs'[r].pc = "done"
                 /\ reqs'[r].status \in {200, 500}
                 /\ reqs'[r].status = 500 => users' = users
                 /\ reqs'[r].status = 200 =>
                      IF reqs[r].route = "deleteUser"
                      THEN reqs[r].id \notin DOMAIN users'
                      ELSE users'[reqs[r].id] = reqs[r].body.role]_vars

\* an admin has been refused a change of their own role
C4_Witness ==
    \E r \in ReqIds :
        /\ reqs[r].pc = "done" /\ reqs[r].status = 400
        /\ reqs[r].msg.text = "You cannot change your own role"

\* C5: a stored user's role changes only in the write of an updateUserRole
\* request that passed the role gate as admin and whose principal is not the
\* user being changed.
C5_RoleChangedOnlyByOtherAdmin ==
    [][\A u \in DOMAIN users \cap DOMAIN users' :
          users'[u] # users[u] =>
            \E r \in ReqIds :
                /\ Steps(r, "write")
                /\ reqs[r].route = "updateUserRole"
                /\ reqs[r].id = u
                /\ reqs[r].user.role = "admin"
                /\ reqs[r].user.id # u
                /\ reqs'[r].status = 200]_vars

\* a role update has gone through
C5_Witness ==
    \E r \in ReqIds :
        /\ reqs[r].pc = "done" /\ reqs[r].status = 200
        /\ reqs[r].msg.text = "User role updated"

\* C6: the author a post was created with never changes, whatever updatePost
\* is sent.
C6_AuthorImmutable ==
    [][\A p \in DOMAIN posts \cap DOMAIN posts' :
          posts'[p].author = posts[p].author]_vars

PostWriting == {"createPost", "updatePost", "deletePost"}
PostReading == {"getAllPosts", "getMyPosts", "getPostById"}

AccessDenied(q) ==
    q.pc = "done" /\ q.status = 403 /\ q.msg.text = "Access denied"

\* C7: a request to create, update or delete a post by a user whose role is
\* viewer when it reaches the gate is refused there with 403 and no post
\* changes - also when that user is the author; posts change only in requests
\* that passed the gate as admin or editor; the reading routes admit every
\* role and answer 200 (404 for an id with no post, 500 when the store or
\* the id cast throws).
C7_ViewerReadOnly ==
    [][/\ \A r \in ReqIds :
            /\ ( /\ Steps(r, "protect")
                 /\ GoodCredentials(reqs[r])
                 /\ reqs[r].auth.token.sub \in DOMAIN users ) =>
                   LET role == users[reqs[r].auth.token.sub] IN
                   /\ role = "viewer" /\ reqs[r].route \in PostWriting =>
                        /\ AccessDenied(reqs'[r]) \/ TokenFailed(reqs'[r])
                        /\ posts' = posts
                   /\ reqs[r].route \in PostReading =>
                        reqs'[r].pc = "ctrl" \/ TokenFailed(reqs'[r])
            /\ ( /\ Steps(r, "ctrl")
                 /\ reqs[r].route \in PostReading ) =>
                   /\ reqs'[r].pc = "done"
                   /\ posts' = posts
                   /\ \/ reqs'[r].status \in {200, 500}
                      \/ /\ reqs'[r].status = 404
                         /\ reqs[r].route = "getPostById"
                         /\ reqs[r].id \notin DOMAIN posts
       /\ posts' # posts =>
            \E r \in ReqIds :
                /\ reqs'[r] # reqs[r]
                /\ reqs[r].route \in PostWriting
                /\ reqs[r].user.role \in {"admin", "editor"}]_vars

\* a viewer has been refused at the gate of a writing post route while a post
\* written by a user who is now a viewer is in the store
C7_Witness ==
    /\ \E r \in ReqIds :
          /\ AccessDenied(reqs[r])
          /\ reqs[r].msg.role = "viewer"
          /\ reqs[r].msg.required = {"admin", "editor"}
    /\ \E p \in DOMAIN posts :
          /\ posts[p].author \in DOMAIN users
          /\ users[posts[p].author] = "viewer"

\* C8: a request to any user-management route by an editor or a viewer is
\* refused at the gate with 403, no user controller runs for it, and the
\* users are unchanged.
C8_UserRoutesAdminOnly ==
    [][\A r \in ReqIds :
          /\ ( /\ Steps(r, "protect")
               /\ GoodCredentials(reqs[r])
               /\ reqs[r].auth.token.sub \in DOMAIN users
               /\ users[reqs[r].auth.token.sub] \in {"editor", "viewer"}
               /\ reqs[r].route \in UserRoutes ) =>
                 /\ AccessDenied(reqs'[r]) \/ TokenFailed(reqs'[r])
                 /\ users' = users
          /\ ( /\ reqs[r].pc \in {"ctrl", "write"}
               /\ reqs[r].route \in UserRoutes ) =>
                 reqs[r].user.role = "admin"]_vars

\* an editor has been refused at the gate of the user routes
C8_Witness ==
    \E r \in ReqIds :
        /\ AccessDenied(reqs[r])
        /\ reqs[r].msg.role = "editor"
        /\ reqs[r].msg.required = {"admin"}

\* C9: a well-signed, unexpired token whose subject is not in the users
\* collection gets 401 from protect and no handler runs; a deleteUser that
\* answers 200 has removed the user, and a removed user never comes back,
\* so every later request on that user's token is refused.
C9_DeletedPrincipalRejected ==
    [][/\ \A r \in ReqIds :
            /\ ( /\ Steps(r, "protect")
                 /\ GoodCredentials(reqs[r])
                 /\ reqs[r].auth.token.sub \notin DOMAIN users ) =>
                   /\ reqs'[r].pc = "done"
                   /\ reqs'[r].status = 401
                   /\ reqs'[r].msg.text \in {"User not found",
                                             "Not authorized, token failed"}
            /\ ( /\ Steps(r, "write")
                 /\ reqs[r].route = "deleteUser"
                 /\ reqs'[r].status = 200 ) =>
                   reqs[r].id \notin DOMAIN users'
       /\ \A u \in UserIds : u \notin DOMAIN users => u \notin DOMAIN users']_vars

\* the live token of a user who is no longer in the store has been refused
C9_Witness ==
    \E r \in ReqIds :
        /\ reqs[r].pc = "done" /\ reqs[r].status = 401
        /\ reqs[r].msg.text = "User not found"
        /\ GoodCredentials(reqs[r])
        /\ reqs[r].auth.token.sub \notin DOMAIN users

ErrorTexts ==
    {"Error fetching posts", "Error fetching your posts", "Error fetching post",
     "Error creating post", "Error updating post", "Error deleting post",
     "Error fetching users", "Error fetching user", "Error updating user role",
     "Error deleting user"}

\* the response of a controller's catch block
ServerError(q) == q.pc = "done" /\ q.status = 500 /\ q.msg.text \in ErrorTexts

C12_OneDeleteSucceeds ==
    [][\A r \in ReqIds :
          ( /\ Steps(r, "write")
            /\ reqs[r].route = "deletePost"
            /\ reqs'[r].status = 200 ) =>
              reqs[r].id \in DOMAIN posts]_vars

\* the routes that look one document up by req.params.id, and their collection
PostIdRoutes == {"getPostById", "updatePost", "deletePost"}
UserIdRoutes == {"getUserById", "updateUserRole", "deleteUser"}

roleAccepted(q) == q.route = "updateUserRole" => q.body.role \in validRoles

\* every failure kind is answered with its status code, a self-targeting
\* admin action with selfStatus (a step whose store operation throws is
\* answered by the catch block instead)
StatusPerKind(selfStatus) ==
    \A r \in ReqIds :
        LET q == reqs[r]
            a == reqs'[r]
        IN
        /\ ( /\ Steps(r, "protect")
             /\ BadCredentials(q) \/ q.auth.token.sub \notin DOMAIN users ) =>
                 a.pc = "done" /\ a.status = 401
        /\ ( /\ Steps(r, "protect")
             /\ GoodCredentials(q)
             /\ q.auth.token.sub \in DOMAIN users
             /\ hasRoleGate(q.route)
             /\ users[q.auth.token.sub] \notin allowedRolesOf(q.route) ) =>
                 a.pc = "done" /\ (a.status = 403 \/ TokenFailed(a))
        /\ ( /\ Steps(r, "ctrl")
             /\ q.route \in MutatingPost
             /\ q.id \in DOMAIN posts
             /\ q.user.role # "admin"
             /\ posts[q.id].author # q.user.id ) =>
                 a.pc = "done" /\ (a.status = 403 \/ ServerError(a))
        /\ ( /\ Steps(r, "ctrl")
             /\ q.route \in UserMutating
             /\ roleAccepted(q)
             /\ q.id \in DOMAIN users
             /\ q.id = q.user.id ) =>
                 a.pc = "done" /\ (a.status = selfStatus \/ ServerError(a))
        /\ ( /\ Steps(r, "ctrl")
             /\ \/ q.route \in PostIdRoutes /\ q.id \in PostIds \ DOMAIN posts
                \/ q.route \in UserIdRoutes /\ q.id \in UserIds \ DOMAIN users
             /\ roleAccepted(q) ) =>
                 a.pc = "done" /\ (a.status = 404 \/ ServerError(a))
        /\ ( /\ Steps(r, "ctrl")
             /\ \/ ~roleAccepted(q)
                \/ /\ q.route = "createPost"
                   /\ q.body.title = Absent \/ q.body.content = Absent ) =>
                 a.pc = "done" /\ a.status = 400

C14_NoServerFault ==
    [][\A r \in ReqIds :
          /\ Steps(r, "protect") => reqs'[r].status < 500
          /\ ( /\ Steps(r, "ctrl")
               /\ reqs[r].route \in PostIdRoutes \cup UserIdRoutes
               /\ roleAccepted(reqs[r])
               /\ reqs[r].id = BadId ) => reqs'[r].status < 500]_vars

\* C15: a store failure is never answered as Unauthenticated: a request on
\* the well-signed, unexpired token of a user the store holds is not
\* answered 401, whatever happens to the lookup.
C15_StoreFailureIsServerError ==
    [][\A r \in ReqIds :
          ( /\ Steps(r, "protect")
            /\ GoodCredentials(reqs[r])
            /\ reqs[r].auth.token.sub \in DOMAIN users ) =>
              reqs'[r].status # 401]_vars

WritingRoutes == PostWriting \cup UserMutating

\* C16: a request reaches its controller only from protect, on good
\* credentials and, on a gated route, with a role the route allows; it
\* reaches its write only from the controller's lookup, on a post it owns or
\* as admin (post update/delete), on a user other than itself (user routes);
\* and the collections change only in a step of a request that has come this
\* way.  A request that was answered earlier takes no further step.
C16_GatesBeforeWrite ==
    [][/\ \A r \in ReqIds :
            LET q == reqs[r]
                a == reqs'[r]
            IN
            /\ (a.pc = "protect" /\ a # q) => q.pc \in {"idle", "done"}
            /\ (a.pc = "ctrl" /\ a # q) =>
                 /\ q.pc = "protect"
                 /\ GoodCredentials(q)
                 /\ a.user = findUserById(q.auth.token.sub)
                 /\ a.user # NoUser
                 /\ hasRoleGate(q.route) => a.user.role \in allowedRolesOf(q.route)
            /\ (a.pc = "write" /\ a # q) =>
                 /\ q.pc = "ctrl"
                 /\ a.user = q.user
                 /\ q.route \in MutatingPost =>
                      /\ q.id \in DOMAIN posts
                      /\ q.user.role = "admin" \/ posts[q.id].author = q.user.id
                 /\ q.route \in UserMutating =>
                      q.id \in DOMAIN users /\ q.id # q.user.id
            /\ (q.pc = "done" /\ a # q) => a.pc = "protect"
       /\ ~StoresUnchanged =>
            \E r \in ReqIds :
                /\ \/ Steps(r, "write")
                   \/ Steps(r, "ctrl") /\ reqs[r].route = "createPost"
                /\ reqs[r].route \in WritingRoutes
                /\ reqs[r].user # NoUser
                /\ reqs[r].user.role \in allowedRolesOf(reqs[r].route)]_vars

\* an update of a post has gone through all three stages and written
C16_Witness ==
    /\ \E r \in ReqIds :
          /\ reqs[r].pc = "done" /\ reqs[r].status = 200
          /\ reqs[r].msg.text = "Post updated successfully"
    /\ \E p \in DOMAIN posts : posts[p].status = "published"

\* C17: protect writes nothing, and the principal it attaches is the token's
\* subject with the role the store holds - the same before and after the
\* step, so a second run on the same token with no write in between attaches
\* the same id and role.
C17_ProtectIdempotent ==
    [][\A r \in ReqIds :
          Steps(r, "protect") =>
            /\ StoresUnchanged
            /\ LET sub == reqs[r].auth.token.sub IN
               /\ reqs'[r].pc = "ctrl" =>
                    /\ sub \in DOMAIN users
                    /\ reqs'[r].user = [id |-> sub, role |-> users[sub]]
                    /\ reqs'[r].user = [id |-> sub, role |-> users'[sub]]
               /\ AccessDenied(reqs'[r]) =>
                    /\ sub \in DOMAIN users
                    /\ reqs'[r].msg.role = users'[sub]]_vars

\* two requests on one token have both passed protect and carry the same
\* principal, the one the store holds
C17_Witness ==
    \E r1, r2 \in ReqIds :
        /\ r1 # r2
        /\ reqs[r1].pc = "ctrl" /\ reqs[r2].pc = "ctrl"
        /\ reqs[r1].user = reqs[r2].user
        /\ reqs[r1].user = findUserById(reqs[r1].user.id)
        /\ reqs[r1].user # NoUser

\* C18: a deleteUser answered 200 removes the user it names and nothing
\* else: every other user keeps its record and every post stays as it was,
\* the posts of the deleted user included.
C18_DeleteUserFrame ==
    [][\A r \in ReqIds :
          ( /\ Steps(r, "write")
            /\ reqs[r].route = "deleteUser"
            /\ reqs'[r].status = 200 ) =>
              /\ DOMAIN users' = DOMAIN users \ {reqs[r].id}
              /\ \A u \in DOMAIN users' : users'[u] = users[u]
              /\ posts' = posts
              /\ nextPostId' = nextPostId]_vars

\* a user has been deleted and a post still names them as its author
C18_Witness ==
    /\ \E r \in ReqIds :
          /\ reqs[r].pc = "done" /\ reqs[r].status = 200
          /\ reqs[r].msg.text = "User deleted successfully"
    /\ \E p \in DOMAIN posts : posts[p].author \notin DOMAIN users

\* C19: a post enters the store with an author the users collection holds
\* at that moment.
C19_AuthorExistsAtCreation ==
    [][\A p \in DOMAIN posts' \ DOMAIN posts :
          posts'[p].author \in DOMAIN users']_vars

\* C20: every stored role is admin, editor or viewer at all times; a role
\* update whose role is missing or outside that set is answered 400 and
\* changes no user; and whenever a stored role changes, its new value is the
\* role asked for by a role update of that user - so however concurrent
\* updates of one user interleave, the role left is one of those requested.
C20_RoleAlwaysValid ==
    /\ [](\A u \in DOMAIN users : users[u] \in validRoles)
    /\ [][/\ \A r \in ReqIds :
               ( /\ Steps(r, "ctrl")
                 /\ reqs[r].route = "updateUserRole"
                 /\ reqs[r].body.role \notin validRoles ) =>
                   /\ reqs'[r].pc = "done" /\ reqs'[r].status = 400
                   /\ reqs'[r].msg.text = "Invalid role"
                   /\ users' = users
          /\ \A u \in DOMAIN users \cap DOMAIN users' :
               users'[u] # users[u] =>
                 \E r \in ReqIds :
                     /\ Steps(r, "write")
                     /\ reqs[r].route = "updateUserRole"
                     /\ reqs[r].id = u
                     /\ reqs[r].body.role \in validRoles
                     /\ users'[u] = reqs[r].body.role]_vars

\* two role updates of one user, asking for different roles, have both found
\* the user and are both about to save
C20_Witness ==
    \E r1, r2 \in ReqIds :
        /\ reqs[r1].pc = "write" /\ reqs[r2].pc = "write"
        /\ reqs[r1].route = "updateUserRole" /\ reqs[r2].route = "updateUserRole"
        /\ reqs[r1].id = reqs[r2].id
        /\ reqs[r1].id \in DOMAIN users
        /\ reqs[r1].body.role # reqs[r2].body.role

\* C21: a post createPost adds has the acting principal as its author,
\* whatever author the body names, and the body's status, or draft when the
\* body has none; a createPost without title or content is answered 400 and
\* adds no post.
C21_CreatePost ==
    [][\A r \in ReqIds :
          ( /\ Steps(r, "ctrl")
            /\ reqs[r].route = "createPost" ) =>
              /\ \A p \in DOMAIN posts' \ DOMAIN posts :
                   /\ posts'[p].author = reqs[r].user.id
                   /\ posts'[p].status = IF reqs[r].body.status = Absent
                                         THEN "draft" ELSE reqs[r].body.status
              /\ \A p \in DOMAIN posts : p \in DOMAIN posts' /\ posts'[p] = posts[p]
              /\ reqs'[r].status = 201 => DOMAIN posts' # DOMAIN posts
              /\ (reqs[r].body.title = Absent \/ reqs[r].body.content = Absent) =>
                   /\ reqs'[r].pc = "done" /\ reqs'[r].status = 400
                   /\ posts' = posts /\ nextPostId' = nextPostId]_vars

\* a createPost that named a status has been answered 201 and its post is
\* stored with that status
C21_Witness ==
    /\ \E r \in ReqIds :
          /\ reqs[r].pc = "done" /\ reqs[r].status = 201
          /\ reqs[r].msg.text = "Post created successfully"
    /\ \E p \in DOMAIN posts : posts[p].status = "published"

\* C22: every stored post's status is draft or published at all times, and
\* an update that names any other status changes no post.
C22_StatusAlwaysValid ==
    /\ [](\A p \in DOMAIN posts : posts[p].status \in statusEnum)
    /\ [][\A r \in ReqIds :
             ( /\ Steps(r, "write")
               /\ reqs[r].route = "updatePost"
               /\ reqs[r].body.status \notin statusEnum \cup {Absent} ) =>
                 /\ ServerError(reqs'[r])
                 /\ posts' = posts]_vars

\* an update naming a status outside the enum has passed the ownership check
\* and is about to write to a stored post
C22_Witness ==
    \E r \in ReqIds :
        /\ reqs[r].pc = "write" /\ reqs[r].route = "updatePost"
        /\ reqs[r].id \in DOMAIN posts
        /\ reqs[r].body.status \notin statusEnum \cup {Absent}

\* C23: checkRole answers 401 when no user is attached, and that never
\* happens: whenever a route's checkRole runs, protect has found the user and
\* attached it, so no request is ever answered 'User not authenticated'.
C23_GateAfterAuth ==
    /\ [](\A route \in Routes :
            LET gate == checkRole(allowedRolesOf(route), NoUser) IN
            ~gate.next /\ gate.status = 401)
    /\ [](\A r \in ReqIds : reqs[r].msg.text # "User not authenticated")
    /\ [][\A r \in ReqIds :
             ( /\ Steps(r, "protect")
               /\ hasRoleGate(reqs[r].route)
               /\ reqs'[r].pc = "ctrl" \/ AccessDenied(reqs'[r]) ) =>
                 /\ findUserById(reqs[r].auth.token.sub) # NoUser
                 /\ reqs'[r].pc = "ctrl" =>
                      reqs'[r].user = findUserById(reqs[r].auth.token.sub)]_vars

\* a route's checkRole has run and passed a request on with its user attached
C23_Witness ==
    \E r \in ReqIds :
        /\ reqs[r].pc = "ctrl"
        /\ hasRoleGate(reqs[r].route)
        /\ reqs[r].user # NoUser
        /\ reqs[r].user.role \in allowedRolesOf(reqs[r].route)

ProtectTexts ==
    {"Not authorized, no token provided", "Not authorized, token failed", "User not found"}

\* C24: protect ends in exactly one way - it passes the request on (to the
\* route's checkRole and controller) with nothing sent, or it sends one 401;
\* a controller step either moves on to its write with nothing sent or sends
\* one response; an answered request does nothing more; and every request
\* in protect or in a controller is eventually answered.
C24_OneOutcome ==
    /\ [][\A r \in ReqIds :
             LET q == reqs[r]
                 a == reqs'[r]
             IN
             /\ Steps(r, "protect") =>
                  \/ a.pc = "ctrl" /\ a.status = 0
                  \/ AccessDenied(a)
                  \/ a.pc = "done" /\ a.status = 401 /\ a.msg.text \in ProtectTexts
             /\ Steps(r, "ctrl") =>
                  \/ a.pc = "write" /\ a.status = 0
                  \/ a.pc = "done" /\ a.status \in {200, 201, 400, 403, 404, 500}
             /\ Steps(r, "write") => a.pc = "done" /\ a.status \in {200, 500}
             /\ (q.pc = "done" /\ a # q) => a.pc = "protect" /\ a.status = 0]_vars
    /\ \A r \in ReqIds :
         /\ (reqs[r].pc = "protect") ~> (reqs[r].pc # "protect")
         /\ (reqs[r].pc \in {"ctrl", "write"}) ~> (reqs[r].pc = "done" /\ reqs[r].status # 0)

\* a request that went through protect, lookup and write has its one response
C24_Witness ==
    \E r \in ReqIds :
        /\ reqs[r].pc = "done" /\ reqs[r].status = 200
        /\ reqs[r].msg.text = "Post deleted successfully"

hasAdmin(us) == \E u \in DOMAIN us : us[u] = "admin"

\* C26: no step takes the last admin away: if some user is admin before a
\* step, some user is admin after it.
C26_AdminRemains == [][hasAdmin(users) => hasAdmin(users')]_vars

\* C27: a role update or user delete that changes the users is made for a
\* principal who, as it is applied, is in the users collection as admin.
C27_ActorStillAdmin ==
    [][\A r \in ReqIds :
          ( /\ Steps(r, "write")
            /\ reqs[r].route \in UserMutating
            /\ users' # users ) =>
              /\ reqs[r].user.id \in DOMAIN users
              /\ users[reqs[r].user.id] = "admin"]_vars

\* C28: an update or delete applied to a stored post for a principal who is
\* not admin is applied to a post whose author, as it is applied, is that
\* principal.
C28_OwnerAtWrite ==
    [][\A r \in ReqIds :
          ( /\ Steps(r, "write")
            /\ reqs[r].route \in MutatingPost
            /\ reqs[r].user.role # "admin"
            /\ reqs[r].id \in DOMAIN posts
            /\ posts' # posts ) =>
              posts[reqs[r].id].author = reqs[r].user.id]_vars

\* C29: an updatePost answered 200 leaves the post it names in the store
\* with the fields of its body applied.
C29_UpdatedPostExists ==
    [][\A r \in ReqIds :
          ( /\ Steps(r, "write")
            /\ reqs[r].route = "updatePost"
            /\ reqs'[r].status = 200 ) =>
              /\ reqs[r].id \in DOMAIN posts'
              /\ reqs[r].body.status # Absent =>
                   posts'[reqs[r].id].status = reqs[r].body.status
              /\ reqs[r].body.author # NoId =>
                   posts'[reqs[r].id].author = reqs[r].body.author]_vars

\* C25: ProtectedRoute renders its children exactly when loading has
\* finished, a user is present and allowedRoles is empty or holds the user's
\* role; without a user it redirects to /login, and a user whose role is not
\* in a non-empty allowedRoles gets Access Denied.  So a rendered /admin was
\* rendered for an admin, a rendered /editor for an admin or editor, and
\* /dashboard and /viewer render for every authenticated user.
C25_ProtectedRoute ==
    /\ \A loading \in BOOLEAN, user \in UserData \cup {NoUserData},
          allowedRoles \in SUBSET validRoles :
          LET view == ProtectedRoute(loading, user, allowedRoles) IN
          /\ view = "children" <=>
                /\ ~loading
                /\ user # NoUserData
                /\ allowedRoles = {} \/ user.role \in allowedRoles
          /\ ~loading /\ user = NoUserData => view = "login"
          /\ (~loading /\ user # NoUserData /\ allowedRoles # {}
                /\ user.role \notin allowedRoles) => view = "denied"
    /\ screen.path # Absent =>
          /\ screen.view = "children" =>
                /\ screen.user # NoUserData
                /\ screen.path = "/admin" => screen.user.role = "admin"
                /\ screen.path = "/editor" => screen.user.role \in {"admin", "editor"}
          /\ screen.user = NoUserData => screen.view = "login"
          /\ (screen.user # NoUserData /\ screen.path \in {"/dashboard", "/viewer"})
                => screen.view = "children"
          /\ (screen.path = "/admin" /\ screen.user.role \in {"editor", "viewer"})
                => screen.view = "denied"
          /\ (screen.path = "/editor" /\ screen.user.role = "viewer")
                => screen.view = "denied"

\* an editor opened /admin and was shown Access Denied
C25_Witness ==
    /\ screen.path = "/admin"
    /\ screen.user.role = "editor"
    /\ screen.view = "denied"

\* C30: from empty localStorage, whatever logins, registers and logouts are
\* called and in whatever order their responses arrive, isAuthenticated is
\* true exactly when localStorage holds both a token and a user; a login or
\* register that fails changes neither the user state nor localStorage; and
\* logout removes both items and sets the user to null.
C30_AuthConsistent ==
    /\ [](isAuthenticated <=>
            (localStorage.token # Absent /\ localStorage.user # NoItem))
    /\ [][(pending' # pending /\ pending'.returned = "failure")
            => (authState' = authState /\ localStorage' = localStorage)]_vars
    /\ [][logout => /\ localStorage'.token = Absent
                    /\ localStorage'.user = NoItem
                    /\ authState'.user = NoUserData]_vars

\* a call failed while a session obtained earlier is held and another call is
\* still awaiting its response
C30_Witness ==
    /\ pending.returned = "failure"
    /\ pending.login + pending.register > 0
    /\ isAuthenticated
    /\ localStorage.token # Absent
    /\ localStorage.user = stringify(authState.user)

====
